---- MODULE Spec2Model ----
(***************************************************************************)
(* Guard-mode prototype: the main loop of run_live_recognition (main.py),  *)
(* the face recognition worker it feeds through two single-slot queues,    *)
(* the ASR listener (asr.py), speech output (tts.py) and the conversation  *)
(* manager (llm.py).                                                       *)
(*                                                                         *)
(* Spec      : the main loop, the recognition worker, the clock, and the   *)
(*             ASR listener seen from the main loop.                       *)
(* SpecTTS   : concurrent text_to_speech calls and their cleanup threads.  *)
(* SpecASR   : an ASRListener, its _listen_worker thread and a client that *)
(*             starts it, polls it and stops it, beside one speech call.   *)
(***************************************************************************)
EXTENDS Integers, Sequences, FiniteSets, TLC

VARIABLES
    now,                      \* time.time(), in seconds
    pc,                       \* position of the main thread in run_live_recognition
    frame,                    \* main.py:107 frame about to be offered to the worker
    frame_count,              \* main.py:93
    recognized_faces,         \* main.py:92
    guard_mode,               \* main.py:95
    conversation_mode,        \* main.py:89
    conversation_timeout,     \* main.py:90
    last_unknown_alert_time,  \* main.py:96
    camera_open,              \* main.py:64 / 228
    conversation_active,      \* llm.py:34 IntruderConversationManager.conversation_active
    frame_queue,              \* main.py:72
    result_queue,             \* main.py:73
    wpc,                      \* position of recognize_faces_worker
    wframe,                   \* main.py:22 the frame the worker holds
    listening,                \* asr.py:33 ASRListener.listening
    text_queue,               \* asr.py:34 ASRListener.text_queue
    tts_message,              \* tts.py:99 the text of the latest text_to_speech_async call
    is_speaking,              \* tts.py:9
    music_busy,               \* tts.py:56/60 pygame.mixer.music.get_busy()
    tts_pc,                   \* position of each text_to_speech call
    tts_blocking,             \* tts.py:26 the blocking argument of each call
    tts_ret,                  \* what each call returned: "True", "False", None before
    cleanup_pc,               \* position of each call's cleanup thread (tts.py:75-90)
    asr_pc,                   \* position of the _listen_worker thread
    cl_pc,                    \* position of the client of the ASRListener
    late_texts,               \* texts put on text_queue after stop_listening returned
    alerts,                   \* main.py:129-131 alerts printed by the latest unknown-face check
    got,                      \* asr.py:116-118 the client's latest get_text(): <<>> is None
    recognized,               \* asr.py:77 the texts put on text_queue, in order (SpecASR)
    delivered,                \* the texts get_text() has returned, in order (SpecASR)
    failed                    \* asr.py:78-88 the worker's latest listen or recognition raised

vars == <<now, pc, frame, frame_count, recognized_faces, guard_mode,
          conversation_mode, conversation_timeout, last_unknown_alert_time,
          camera_open, conversation_active, frame_queue, result_queue, wpc,
          wframe, listening, text_queue, tts_message, is_speaking, music_busy,
          tts_pc, tts_blocking, tts_ret, cleanup_pc, asr_pc, cl_pc, late_texts,
          alerts, got, recognized, delivered, failed>>

\* the variables of each part
mainVars == <<now, pc, frame, frame_count, recognized_faces, guard_mode,
              conversation_mode, conversation_timeout, last_unknown_alert_time,
              camera_open, conversation_active, frame_queue, result_queue, wpc,
              wframe, tts_message, alerts>>
ttsVars == <<is_speaking, music_busy, tts_pc, tts_blocking, tts_ret, cleanup_pc>>
\* what the client of the listener got, and the history of the queue
asrLog == <<got, recognized, delivered, failed>>
asrVars == <<listening, text_queue, asr_pc, cl_pc, late_texts, asrLog>>
\* what the main loop and the recognition worker never touch
voiceVars == <<ttsVars, asr_pc, cl_pc, late_texts, asrLog>>

(***************************************************************************)
(* Bounds of the model.                                                    *)
(***************************************************************************)
\* the camera stream delivers this many frames, then read() fails
MaxFrames == 6
\* texts the ASR listener may have queued and not yet taken by the main loop
MaxText == 2
\* time.time() when run_live_recognition starts (an epoch time: far above 10)
StartTime == 20
\* the clock advances in steps of this many seconds
TickStep == 60
\* number of clock steps in a run
MaxTicks == 3

(***************************************************************************)
\* text_to_speech calls in a run
MaxCalls == 2
\* texts the listener recognizes in a run in which a client polls it
MaxRecognized == 3
Calls == 1..MaxCalls

(***************************************************************************)
(* Program constants.                                                      *)
(***************************************************************************)
QueueSize == 1
process_every_n_frames == 3
AlertInterval == 10
ConversationSeconds == 60

None == "None"
NoFrame == "NoFrame"

\* asr.py:115-118  what a caller of get_text() holds: <<>> for None,
\* <<t>> for the text t
Returned(x) == IF x = None THEN <<>> ELSE <<x>>

\* people in front of the camera; known_faces holds the enrolled ones
KnownFaces == {"owner"}
Scenes == { <<"owner">>, <<"stranger", "owner", "stranger">> }

\* what the listener can recognize, as the characters of the string
GuardRoomText == <<"g","u","a","r","d"," ","r","o","o","m">>
StopGuardText == <<"S","t","o","p"," ","G","u","a","r","d">>
StopGuardingRoomText ==
    <<"s","t","o","p"," ","g","u","a","r","d","i","n","g"," ","r","o","o","m">>
QuitText == <<"q","u","i","t">>
Texts == {GuardRoomText, StopGuardText, StopGuardingRoomText, QuitText}

\* messages handed to speech output
OpeningMessage == "opening"
ReplyMessage == "reply"
FinalWarning == "final warning"

(***************************************************************************)
(* Pure helpers.                                                           *)
(***************************************************************************)
\* str.lower() on the alphabet of Texts
LowerChar(c) ==
    CASE c = "S" -> "s"
      [] c = "G" -> "g"
      [] OTHER -> c

Lower(s) == [i \in 1..Len(s) |-> LowerChar(s[i])]

\* Python's  word in s  on strings: substring search
Contains(s, word) ==
    \E i \in 1..(Len(s) - Len(word) + 1) :
        SubSeq(s, i, i + Len(word) - 1) = word

KwGuard == <<"g","u","a","r","d">>
KwRoom == <<"r","o","o","m">>
KwStop == <<"s","t","o","p">>
KwQuit == <<"q","u","i","t">>
KwExit == <<"e","x","i","t">>
KwClose == <<"c","l","o","s","e">>

\* main.py:36-53  the names the worker gives the faces of a frame
Recognize(f) ==
    [i \in 1..Len(f) |-> IF f[i] \in KnownFaces THEN f[i] ELSE "Unknown"]

\* llm.py:183-202  start_conversation: the new conversation_active and the message
StartConversation == [active |-> TRUE, message |-> OpeningMessage]

\* llm.py:214  process_intruder_response, with a bug: the test of line 214 inverted
ProcessIntruderResponseRestart(active) ==
    IF active THEN StartConversation
    ELSE [active |-> active, message |-> ReplyMessage]

\* llm.py:204-221  process_intruder_response
ProcessIntruderResponse(active) ==
    IF ~active THEN StartConversation
    ELSE [active |-> active, message |-> ReplyMessage]

\* main.py:127  the condition of an alert, with a bug: the conversation length as interval
AlertDueLongInterval(name, current_time, last) ==
    name = "Unknown" /\ (current_time - last) > ConversationSeconds

\* main.py:127  the condition of an alert, with a bug: the interval is not tested
AlertDueNoInterval(name, current_time, last) ==
    name = "Unknown"

\* main.py:127  the condition of an alert
AlertDue(name, current_time, last) ==
    name = "Unknown" /\ (current_time - last) > AlertInterval

\* main.py:136 and 181  the deadline of a conversation (re)started at time t
ConversationDeadline(t) == t + ConversationSeconds

\* main.py:206  the deadline test, with a bug: not strict
TimedOutAtDeadline(t, deadline) == t >= deadline

\* main.py:206  time.time() > conversation_timeout
TimedOut(t, deadline) == t > deadline

\* main.py:126-141  the for loop over recognized_faces, from face i on; st carries
\* conversation_mode, conversation_timeout, last_unknown_alert_time,
\* conversation_active, the message handed to speech output and the alerts printed
RECURSIVE GuardLoop(_, _, _, _)
GuardLoop(faces, i, current_time, st) ==
    IF i > Len(faces) THEN st
    ELSE IF AlertDue(faces[i], current_time, st.last)
         THEN GuardLoop(faces, i + 1, current_time,
                [conv    |-> TRUE,
                 timeout |-> IF ~st.conv THEN ConversationDeadline(current_time)
                             ELSE st.timeout,
                 last    |-> current_time,
                 active  |-> IF ~st.conv THEN StartConversation.active ELSE st.active,
                 spoken  |-> IF ~st.conv THEN StartConversation.message
                             ELSE st.spoken,
                 alerts  |-> st.alerts + 1])
         ELSE GuardLoop(faces, i + 1, current_time, st)

(***************************************************************************)
(* Initial state: run_live_recognition up to the while loop (main.py:64-96)*)
(* with the listener started (main.py:84-85) and no speech call yet.       *)
(***************************************************************************)
\* run_live_recognition at the head of its while loop
MainStarted ==
    /\ now = StartTime
    /\ pc = "read"
    /\ frame = NoFrame
    /\ frame_count = 0
    /\ recognized_faces = <<>>
    /\ guard_mode = FALSE
    /\ conversation_mode = FALSE
    /\ conversation_timeout = 0
    /\ last_unknown_alert_time = 0
    /\ camera_open = TRUE
    /\ conversation_active = FALSE
    /\ frame_queue = <<>>
    /\ result_queue = <<>>
    /\ wpc = "get"
    /\ wframe = NoFrame
    /\ tts_message = None
    /\ alerts = 0

\* tts.py:9-13  the module just imported: nothing speaks, no call yet
TTSIdle ==
    /\ is_speaking = FALSE
    /\ music_busy = FALSE
    /\ tts_pc = [c \in Calls |-> "idle"]
    /\ tts_blocking = [c \in Calls |-> TRUE]
    /\ tts_ret = [c \in Calls |-> None]
    /\ cleanup_pc = [c \in Calls |-> "none"]

\* asr.py:94-98  an ASRListener after start_listening()
ASRStarted ==
    /\ listening = TRUE
    /\ text_queue = <<>>
    /\ asr_pc = "loop"
    /\ cl_pc = "running"
    /\ late_texts = 0
    /\ got = Returned(None)
    /\ recognized = <<>>
    /\ delivered = <<>>
    /\ failed = FALSE

\* asr.py:26-48  an ASRListener just constructed
ASRConstructed ==
    /\ listening = FALSE
    /\ text_queue = <<>>
    /\ asr_pc = "none"
    /\ cl_pc = "init"
    /\ late_texts = 0
    /\ got = Returned(None)
    /\ recognized = <<>>
    /\ delivered = <<>>
    /\ failed = FALSE

Init == MainStarted /\ TTSIdle /\ ASRStarted

(***************************************************************************)
(* The main thread.                                                        *)
(***************************************************************************)
\* main.py:107-117  with a bug: every third frame is put without the full() test
ReadFrameNoFullCheck ==
    /\ pc = "read"
    /\ \/ /\ pc' = "stop_asr"
          /\ UNCHANGED <<frame, frame_count>>
       \/ /\ frame_count < MaxFrames
          /\ frame_count' = frame_count + 1
          /\ \E f \in Scenes :
                IF frame_count' % process_every_n_frames = 0
                THEN frame' = f /\ pc' = "put_frame"
                ELSE frame' = NoFrame /\ pc' = "poll"
    /\ UNCHANGED <<now, recognized_faces, guard_mode, conversation_mode,
                   conversation_timeout, last_unknown_alert_time, camera_open,
                   conversation_active, frame_queue, result_queue, wpc, wframe,
                   listening, text_queue, tts_message>>
    /\ UNCHANGED voiceVars
    /\ UNCHANGED alerts

\* main.py:115  with a bug: every frame is offered, not every third
ReadFrameEveryFrame ==
    /\ pc = "read"
    /\ \/ /\ pc' = "stop_asr"
          /\ UNCHANGED <<frame, frame_count>>
       \/ /\ frame_count < MaxFrames
          /\ frame_count' = frame_count + 1
          /\ \E f \in Scenes :
                IF ~(Len(frame_queue) >= QueueSize)
                THEN frame' = f /\ pc' = "put_frame"
                ELSE frame' = NoFrame /\ pc' = "poll"
    /\ UNCHANGED <<now, recognized_faces, guard_mode, conversation_mode,
                   conversation_timeout, last_unknown_alert_time, camera_open,
                   conversation_active, frame_queue, result_queue, wpc, wframe,
                   listening, text_queue, tts_message>>
    /\ UNCHANGED voiceVars
    /\ UNCHANGED alerts

\* main.py:107-116  read a frame, count it, decide whether to offer it
ReadFrame ==
    /\ pc = "read"
    /\ \/ /\ pc' = "stop_asr"                       \* ret is False: break
          /\ UNCHANGED <<frame, frame_count>>
       \/ /\ frame_count < MaxFrames
          /\ frame_count' = frame_count + 1
          /\ \E f \in Scenes :
                IF frame_count' % process_every_n_frames = 0
                   /\ ~(Len(frame_queue) >= QueueSize)       \* not frame_queue.full()
                THEN frame' = f /\ pc' = "put_frame"
                ELSE frame' = NoFrame /\ pc' = "poll"
    /\ UNCHANGED <<now, recognized_faces, guard_mode, conversation_mode,
                   conversation_timeout, last_unknown_alert_time, camera_open,
                   conversation_active, frame_queue, result_queue, wpc, wframe,
                   listening, text_queue, tts_message>>
    /\ UNCHANGED voiceVars
    /\ UNCHANGED alerts

\* main.py:117  frame_queue.put(frame): waits while the queue is full
PutFrame ==
    /\ pc = "put_frame"
    /\ Len(frame_queue) < QueueSize
    /\ frame_queue' = Append(frame_queue, frame)
    /\ frame' = NoFrame
    /\ pc' = "poll"
    /\ UNCHANGED <<now, frame_count, recognized_faces, guard_mode,
                   conversation_mode, conversation_timeout,
                   last_unknown_alert_time, camera_open, conversation_active,
                   result_queue, wpc, wframe, listening, text_queue, tts_message>>
    /\ UNCHANGED voiceVars
    /\ UNCHANGED alerts

\* main.py:120  if not result_queue.empty()
PollResult ==
    /\ pc = "poll"
    /\ pc' = IF result_queue # <<>> THEN "get_result" ELSE "guard"
    /\ UNCHANGED <<now, frame, frame_count, recognized_faces, guard_mode,
                   conversation_mode, conversation_timeout,
                   last_unknown_alert_time, camera_open, conversation_active,
                   frame_queue, result_queue, wpc, wframe, listening, text_queue,
                   tts_message>>
    /\ UNCHANGED voiceVars
    /\ UNCHANGED alerts

\* main.py:121  recognized_faces = result_queue.get(): waits while the queue is empty
GetResult ==
    /\ pc = "get_result"
    /\ result_queue # <<>>
    /\ recognized_faces' = Head(result_queue)
    /\ result_queue' = Tail(result_queue)
    /\ pc' = "guard"
    /\ UNCHANGED <<now, frame, frame_count, guard_mode, conversation_mode,
                   conversation_timeout, last_unknown_alert_time, camera_open,
                   conversation_active, frame_queue, wpc, wframe, listening,
                   text_queue, tts_message>>
    /\ UNCHANGED voiceVars
    /\ UNCHANGED alerts

\* main.py:124-167  the unknown-face check, then the display and the 'q' key
GuardCheck ==
    /\ pc = "guard"
    /\ LET st0 == [conv |-> conversation_mode, timeout |-> conversation_timeout,
                   last |-> last_unknown_alert_time, active |-> conversation_active,
                   spoken |-> tts_message, alerts |-> 0]
           st  == IF guard_mode THEN GuardLoop(recognized_faces, 1, now, st0)
                  ELSE st0
       IN  /\ conversation_mode' = st.conv
           /\ conversation_timeout' = st.timeout
           /\ last_unknown_alert_time' = st.last
           /\ conversation_active' = st.active
           /\ tts_message' = st.spoken
           /\ alerts' = st.alerts
    /\ IF guard_mode
       THEN \E key_q \in BOOLEAN : pc' = IF key_q THEN "stop_asr" ELSE "speech"
       ELSE pc' = "speech"
    /\ UNCHANGED <<now, frame, frame_count, recognized_faces, guard_mode,
                   camera_open, frame_queue, result_queue, wpc, wframe, listening,
                   text_queue>>
    /\ UNCHANGED voiceVars

\* main.py:170-203  one recognized text: intruder response or voice command
Speech ==
    /\ pc = "speech"
    /\ IF text_queue # <<>>                           \* asr_listener.has_text()
       THEN LET spoken_text == Head(text_queue)       \* asr_listener.get_text()
                spoken_lower == Lower(spoken_text)
            IN  /\ text_queue' = Tail(text_queue)
                /\ IF conversation_mode
                   THEN LET r == ProcessIntruderResponse(conversation_active)
                        IN  /\ conversation_active' = r.active
                            /\ tts_message' = r.message
                            /\ conversation_timeout' = ConversationDeadline(now)
                            /\ pc' = "timeout"
                            /\ UNCHANGED <<guard_mode, conversation_mode>>
                   ELSE IF Contains(spoken_lower, KwGuard) /\ Contains(spoken_lower, KwRoom)
                   THEN /\ guard_mode' = TRUE
                        /\ pc' = "timeout"
                        /\ UNCHANGED <<conversation_mode, conversation_active,
                                       conversation_timeout, tts_message>>
                   ELSE IF Contains(spoken_lower, KwStop) /\ Contains(spoken_lower, KwGuard)
                   THEN /\ guard_mode' = FALSE
                        /\ conversation_mode' = FALSE
                        /\ conversation_active' = FALSE   \* end_conversation if active
                        /\ pc' = "timeout"
                        /\ UNCHANGED <<conversation_timeout, tts_message>>
                   ELSE IF \E w \in {KwQuit, KwExit, KwClose} : Contains(spoken_lower, w)
                   THEN /\ pc' = "stop_asr"                \* break
                        /\ UNCHANGED <<guard_mode, conversation_mode,
                                       conversation_active, conversation_timeout,
                                       tts_message>>
                   ELSE /\ pc' = "timeout"
                        /\ UNCHANGED <<guard_mode, conversation_mode,
                                       conversation_active, conversation_timeout,
                                       tts_message>>
       ELSE /\ pc' = "timeout"
            /\ UNCHANGED <<text_queue, guard_mode, conversation_mode,
                           conversation_active, conversation_timeout, tts_message>>
    /\ UNCHANGED <<now, frame, frame_count, recognized_faces,
                   last_unknown_alert_time, camera_open, frame_queue, result_queue,
                   wpc, wframe, listening>>
    /\ UNCHANGED voiceVars
    /\ UNCHANGED alerts

\* main.py:206-213  the conversation timeout
ConversationTimeout ==
    /\ pc = "timeout"
    /\ IF conversation_mode /\ TimedOut(now, conversation_timeout)
       THEN /\ conversation_mode' = FALSE
            /\ IF conversation_active
               THEN /\ conversation_active' = FALSE
                    /\ tts_message' = FinalWarning
               ELSE UNCHANGED <<conversation_active, tts_message>>
       ELSE UNCHANGED <<conversation_mode, conversation_active, tts_message>>
    /\ pc' = "read"
    /\ UNCHANGED <<now, frame, frame_count, recognized_faces, guard_mode,
                   conversation_timeout, last_unknown_alert_time, camera_open,
                   frame_queue, result_queue, wpc, wframe, listening, text_queue>>
    /\ UNCHANGED voiceVars
    /\ UNCHANGED alerts

\* main.py:221  asr_listener.stop_listening() (asr.py:104-107)
StopASR ==
    /\ pc = "stop_asr"
    /\ listening' = FALSE
    /\ pc' = "put_sentinel"
    /\ UNCHANGED <<now, frame, frame_count, recognized_faces, guard_mode,
                   conversation_mode, conversation_timeout,
                   last_unknown_alert_time, camera_open, conversation_active,
                   frame_queue, result_queue, wpc, wframe, text_queue, tts_message>>
    /\ UNCHANGED voiceVars
    /\ UNCHANGED alerts

\* main.py:224  frame_queue.put(None): waits while the queue is full
PutSentinel ==
    /\ pc = "put_sentinel"
    /\ Len(frame_queue) < QueueSize
    /\ frame_queue' = Append(frame_queue, None)
    /\ pc' = "join"
    /\ UNCHANGED <<now, frame, frame_count, recognized_faces, guard_mode,
                   conversation_mode, conversation_timeout,
                   last_unknown_alert_time, camera_open, conversation_active,
                   result_queue, wpc, wframe, listening, text_queue, tts_message>>
    /\ UNCHANGED voiceVars
    /\ UNCHANGED alerts

\* main.py:225  recognition_thread.join(): waits until the worker has returned
JoinWorker ==
    /\ pc = "join"
    /\ wpc = "done"
    /\ pc' = "release"
    /\ UNCHANGED <<now, frame, frame_count, recognized_faces, guard_mode,
                   conversation_mode, conversation_timeout,
                   last_unknown_alert_time, camera_open, conversation_active,
                   frame_queue, result_queue, wpc, wframe, listening, text_queue,
                   tts_message>>
    /\ UNCHANGED voiceVars
    /\ UNCHANGED alerts

\* main.py:228-229  video_capture.release()
ReleaseCamera ==
    /\ pc = "release"
    /\ camera_open' = FALSE
    /\ pc' = "done"
    /\ UNCHANGED <<now, frame, frame_count, recognized_faces, guard_mode,
                   conversation_mode, conversation_timeout,
                   last_unknown_alert_time, conversation_active, frame_queue,
                   result_queue, wpc, wframe, listening, text_queue, tts_message>>
    /\ UNCHANGED voiceVars
    /\ UNCHANGED alerts

(***************************************************************************)
(* recognize_faces_worker.                                                 *)
(***************************************************************************)
\* main.py:22-24  frame_queue.get(): waits while the queue is empty
WorkerGet ==
    /\ wpc = "get"
    /\ frame_queue # <<>>
    /\ frame_queue' = Tail(frame_queue)
    /\ IF Head(frame_queue) = None
       THEN wpc' = "done" /\ wframe' = NoFrame
       ELSE wpc' = "put" /\ wframe' = Head(frame_queue)
    /\ UNCHANGED <<now, pc, frame, frame_count, recognized_faces, guard_mode,
                   conversation_mode, conversation_timeout,
                   last_unknown_alert_time, camera_open, conversation_active,
                   result_queue, listening, text_queue, tts_message>>
    /\ UNCHANGED voiceVars
    /\ UNCHANGED alerts

\* main.py:55  with a bug: result_queue made without maxsize, put never waits
WorkerPutUnbounded ==
    /\ wpc = "put"
    /\ result_queue' = Append(result_queue, Recognize(wframe))
    /\ wframe' = NoFrame
    /\ wpc' = "get"
    /\ UNCHANGED <<now, pc, frame, frame_count, recognized_faces, guard_mode,
                   conversation_mode, conversation_timeout,
                   last_unknown_alert_time, camera_open, conversation_active,
                   frame_queue, listening, text_queue, tts_message>>
    /\ UNCHANGED voiceVars
    /\ UNCHANGED alerts

\* main.py:27-57  recognize, then result_queue.put: waits while the queue is full;
\* the time.sleep(1) that follows changes nothing and is part of the step
WorkerPut ==
    /\ wpc = "put"
    /\ Len(result_queue) < QueueSize
    /\ result_queue' = Append(result_queue, Recognize(wframe))
    /\ wframe' = NoFrame
    /\ wpc' = "get"
    /\ UNCHANGED <<now, pc, frame, frame_count, recognized_faces, guard_mode,
                   conversation_mode, conversation_timeout,
                   last_unknown_alert_time, camera_open, conversation_active,
                   frame_queue, listening, text_queue, tts_message>>
    /\ UNCHANGED voiceVars
    /\ UNCHANGED alerts

(***************************************************************************)
(* The ASR listener, as the main loop sees it, and the clock.               *)
(***************************************************************************)
\* asr.py:54-77  one listen cycle of _listen_worker that recognizes a text
ASRRecognized ==
    /\ listening
    /\ Len(text_queue) < MaxText
    /\ \E t \in Texts : text_queue' = Append(text_queue, t)
    /\ UNCHANGED <<now, pc, frame, frame_count, recognized_faces, guard_mode,
                   conversation_mode, conversation_timeout,
                   last_unknown_alert_time, camera_open, conversation_active,
                   frame_queue, result_queue, wpc, wframe, listening, tts_message>>
    /\ UNCHANGED voiceVars
    /\ UNCHANGED alerts

\* the clock
Tick ==
    /\ now < StartTime + MaxTicks * TickStep
    /\ now' = now + TickStep
    /\ UNCHANGED <<pc, frame, frame_count, recognized_faces, guard_mode,
                   conversation_mode, conversation_timeout,
                   last_unknown_alert_time, camera_open, conversation_active,
                   frame_queue, result_queue, wpc, wframe, listening, text_queue,
                   tts_message>>
    /\ UNCHANGED voiceVars
    /\ UNCHANGED alerts

Next ==
    \/ ReadFrame \/ PutFrame \/ PollResult \/ GetResult \/ GuardCheck
    \/ Speech \/ ConversationTimeout
    \/ StopASR \/ PutSentinel \/ JoinWorker \/ ReleaseCamera
    \/ WorkerGet \/ WorkerPut
    \/ ASRRecognized \/ Tick

Spec == Init /\ [][Next]_vars

(***************************************************************************)
(* tts.py: text_to_speech, call c.                                         *)
(***************************************************************************)
\* tts.py:94-96  the except clause: print and return False
TTSRaise(c) ==
    /\ tts_pc' = [tts_pc EXCEPT ![c] = "returned"]
    /\ tts_ret' = [tts_ret EXCEPT ![c] = "False"]
    /\ UNCHANGED <<is_speaking, music_busy, cleanup_pc>>

\* tts.py:26-40  a caller enters text_to_speech(text, blocking)
TTSCall(c) ==
    /\ tts_pc[c] = "idle"
    /\ \E b \in BOOLEAN : tts_blocking' = [tts_blocking EXCEPT ![c] = b]
    /\ tts_pc' = [tts_pc EXCEPT ![c] = "flag"]
    /\ UNCHANGED <<is_speaking, music_busy, tts_ret, cleanup_pc>>
    /\ UNCHANGED <<mainVars, asrVars>>

\* tts.py:43-44  set the speaking flag
TTSSetFlag(c) ==
    /\ tts_pc[c] = "flag"
    /\ is_speaking' = TRUE
    /\ tts_pc' = [tts_pc EXCEPT ![c] = "synth"]
    /\ UNCHANGED <<music_busy, tts_blocking, tts_ret, cleanup_pc>>
    /\ UNCHANGED <<mainVars, asrVars>>

\* tts.py:47-52  temporary file, gTTS synthesis and save: may raise
TTSSynth(c) ==
    /\ tts_pc[c] = "synth"
    /\ \/ /\ tts_pc' = [tts_pc EXCEPT ![c] = "play"]
          /\ UNCHANGED <<is_speaking, music_busy, tts_ret, cleanup_pc>>
       \/ TTSRaise(c)
    /\ UNCHANGED tts_blocking
    /\ UNCHANGED <<mainVars, asrVars>>

\* tts.py:55-58 and 73-92  load and play (may raise); a non-blocking call starts
\* its cleanup thread and returns True
TTSPlay(c) ==
    /\ tts_pc[c] = "play"
    /\ \/ /\ music_busy' = TRUE
          /\ IF tts_blocking[c]
             THEN /\ tts_pc' = [tts_pc EXCEPT ![c] = "wait"]
                  /\ UNCHANGED <<tts_ret, cleanup_pc>>
             ELSE /\ cleanup_pc' = [cleanup_pc EXCEPT ![c] = "wait"]
                  /\ tts_ret' = [tts_ret EXCEPT ![c] = "True"]
                  /\ tts_pc' = [tts_pc EXCEPT ![c] = "returned"]
          /\ UNCHANGED is_speaking
       \/ TTSRaise(c)
    /\ UNCHANGED tts_blocking
    /\ UNCHANGED <<mainVars, asrVars>>

\* tts.py:60-61  while pygame.mixer.music.get_busy(): sleep
TTSWait(c) ==
    /\ tts_pc[c] = "wait"
    /\ ~music_busy
    /\ tts_pc' = [tts_pc EXCEPT ![c] = "clear"]
    /\ UNCHANGED <<is_speaking, music_busy, tts_blocking, tts_ret, cleanup_pc>>
    /\ UNCHANGED <<mainVars, asrVars>>

\* tts.py:64-72 and 92  clear the flag, remove the file, return True
TTSClear(c) ==
    /\ tts_pc[c] = "clear"
    /\ is_speaking' = FALSE
    /\ tts_ret' = [tts_ret EXCEPT ![c] = "True"]
    /\ tts_pc' = [tts_pc EXCEPT ![c] = "returned"]
    /\ UNCHANGED <<music_busy, tts_blocking, cleanup_pc>>
    /\ UNCHANGED <<mainVars, asrVars>>

\* tts.py:77-78  cleanup: wait for the audio to finish
CleanupWait(c) ==
    /\ cleanup_pc[c] = "wait"
    /\ ~music_busy
    /\ cleanup_pc' = [cleanup_pc EXCEPT ![c] = "clear"]
    /\ UNCHANGED <<is_speaking, music_busy, tts_pc, tts_blocking, tts_ret>>
    /\ UNCHANGED <<mainVars, asrVars>>

\* tts.py:81-89  cleanup: clear the flag, remove the file
CleanupClear(c) ==
    /\ cleanup_pc[c] = "clear"
    /\ is_speaking' = FALSE
    /\ cleanup_pc' = [cleanup_pc EXCEPT ![c] = "done"]
    /\ UNCHANGED <<music_busy, tts_pc, tts_blocking, tts_ret>>
    /\ UNCHANGED <<mainVars, asrVars>>

\* tts.py:56  the audio started by play() comes to its end
PlaybackEnds ==
    /\ music_busy
    /\ music_busy' = FALSE
    /\ UNCHANGED <<is_speaking, tts_pc, tts_blocking, tts_ret, cleanup_pc>>
    /\ UNCHANGED <<mainVars, asrVars>>

TTSStep(c) ==
    \/ TTSCall(c) \/ TTSSetFlag(c) \/ TTSSynth(c) \/ TTSPlay(c)
    \/ TTSWait(c) \/ TTSClear(c) \/ CleanupWait(c) \/ CleanupClear(c)

\* run_live_recognition and the listener are not running
MainOff ==
    /\ now = StartTime
    /\ pc = "off"
    /\ frame = NoFrame
    /\ frame_count = 0
    /\ recognized_faces = <<>>
    /\ guard_mode = FALSE
    /\ conversation_mode = FALSE
    /\ conversation_timeout = 0
    /\ last_unknown_alert_time = 0
    /\ camera_open = FALSE
    /\ conversation_active = FALSE
    /\ frame_queue = <<>>
    /\ result_queue = <<>>
    /\ wpc = "off"
    /\ wframe = NoFrame
    /\ tts_message = None
    /\ alerts = 0

InitTTS == MainOff /\ TTSIdle /\ ASRConstructed

NextTTS == (\E c \in Calls : TTSStep(c)) \/ PlaybackEnds

SpecTTS == InitTTS /\ [][NextTTS]_vars

(***************************************************************************)
(* asr.py: ASRListener._listen_worker and a client of the listener.        *)
(***************************************************************************)
\* asr.py:54  with a bug: while True, the flag is not read
ASRLoopForever ==
    /\ asr_pc = "loop"
    /\ asr_pc' = "check_tts"
    /\ UNCHANGED <<listening, text_queue, cl_pc, late_texts>>
    /\ UNCHANGED <<mainVars, ttsVars>>
    /\ UNCHANGED asrLog

\* asr.py:54  while self.listening
ASRLoop ==
    /\ asr_pc = "loop"
    /\ asr_pc' = IF listening THEN "check_tts" ELSE "done"
    /\ UNCHANGED <<listening, text_queue, cl_pc, late_texts>>
    /\ UNCHANGED <<mainVars, ttsVars>>
    /\ UNCHANGED asrLog

\* asr.py:57-64  is_tts_speaking(): pause, or go on to listen
ASRCheckTTS ==
    /\ asr_pc = "check_tts"
    /\ asr_pc' = IF is_speaking THEN "pause" ELSE "listen"
    /\ UNCHANGED <<listening, text_queue, cl_pc, late_texts>>
    /\ UNCHANGED <<mainVars, ttsVars>>
    /\ UNCHANGED asrLog

\* asr.py:61-62  time.sleep(0.5); continue
ASRPause ==
    /\ asr_pc = "pause"
    /\ asr_pc' = "loop"
    /\ UNCHANGED <<listening, text_queue, cl_pc, late_texts>>
    /\ UNCHANGED <<mainVars, ttsVars>>
    /\ UNCHANGED asrLog

\* asr.py:86-88  with a bug: no except Exception, the exception ends the thread
ASRListenUncaught ==
    /\ asr_pc = "listen"
    /\ \E outcome \in {"audio", "timeout", "error"} :
          /\ asr_pc' = CASE outcome = "audio"   -> "recognize"
                         [] outcome = "timeout" -> "loop"
                         [] outcome = "error"   -> "done"
          /\ failed' = (outcome # "audio")
    /\ UNCHANGED <<listening, text_queue, cl_pc, late_texts>>
    /\ UNCHANGED <<mainVars, ttsVars>>
    /\ UNCHANGED <<got, recognized, delivered>>

\* asr.py:66-70 and 83-88  recognizer.listen: audio, WaitTimeoutError, or another
\* exception
ASRListen ==
    /\ asr_pc = "listen"
    /\ \E outcome \in {"audio", "timeout", "error"} :
          /\ asr_pc' = CASE outcome = "audio"   -> "recognize"
                         [] outcome = "timeout" -> "loop"
                         [] outcome = "error"   -> "error_sleep"
          /\ failed' = (outcome # "audio")
    /\ UNCHANGED <<listening, text_queue, cl_pc, late_texts>>
    /\ UNCHANGED <<mainVars, ttsVars>>
    /\ UNCHANGED <<got, recognized, delivered>>

\* asr.py:72-81 and 86-88  recognize_google: a text (put on text_queue),
\* UnknownValueError or RequestError, or another exception
ASRRecognize ==
    /\ asr_pc = "recognize"
    /\ \/ /\ Len(text_queue) < MaxText
          /\ Len(recognized) < MaxRecognized
          /\ \E t \in Texts :
                /\ text_queue' = Append(text_queue, t)
                /\ recognized' = Append(recognized, t)
          /\ late_texts' = IF cl_pc = "stopped" THEN late_texts + 1 ELSE late_texts
          /\ asr_pc' = "loop"
          /\ failed' = FALSE
       \/ /\ asr_pc' = "loop"                     \* UnknownValueError, RequestError
          /\ failed' = TRUE
          /\ UNCHANGED <<text_queue, late_texts, recognized>>
       \/ /\ asr_pc' = "error_sleep"              \* except Exception
          /\ failed' = TRUE
          /\ UNCHANGED <<text_queue, late_texts, recognized>>
    /\ UNCHANGED <<listening, cl_pc, got, delivered>>
    /\ UNCHANGED <<mainVars, ttsVars>>

\* asr.py:87-88  print the error, time.sleep(1)
ASRErrorSleep ==
    /\ asr_pc = "error_sleep"
    /\ asr_pc' = "loop"
    /\ UNCHANGED <<listening, text_queue, cl_pc, late_texts>>
    /\ UNCHANGED <<mainVars, ttsVars>>
    /\ UNCHANGED asrLog

\* asr.py:90-98  start_listening
StartListening ==
    /\ cl_pc = "init"
    /\ IF ~listening
       THEN listening' = TRUE /\ asr_pc' = "loop"
       ELSE UNCHANGED <<listening, asr_pc>>
    /\ cl_pc' = "running"
    /\ UNCHANGED <<text_queue, late_texts>>
    /\ UNCHANGED <<mainVars, ttsVars>>
    /\ UNCHANGED asrLog

\* asr.py:116  with a bug: the newest text is taken, not the oldest
GetTextNewest(q) ==
    IF q # <<>> THEN [text |-> q[Len(q)], queue |-> SubSeq(q, 1, Len(q) - 1)]
    ELSE [text |-> None, queue |-> q]

\* asr.py:110-118  get_text: get_nowait, None when the queue is empty
GetText(q) ==
    IF q # <<>> THEN [text |-> Head(q), queue |-> Tail(q)]
    ELSE [text |-> None, queue |-> q]

\* asr.py:120-124  has_text
HasText(q) == ~(q = <<>>)

\* asr.py:179-180  the client polls: if listener.has_text(): listener.get_text()
ClientPoll ==
    /\ cl_pc = "running"
    /\ HasText(text_queue)
    /\ LET r == GetText(text_queue)
       IN  /\ text_queue' = r.queue
           /\ got' = Returned(r.text)
           /\ delivered' = Append(delivered, r.text)
    /\ UNCHANGED <<listening, asr_pc, cl_pc, late_texts, recognized, failed>>
    /\ UNCHANGED <<mainVars, ttsVars>>

\* asr.py:110-118  the client calls get_text() without asking has_text() first
ClientGetText ==
    /\ cl_pc = "running"
    /\ LET r == GetText(text_queue)
       IN  /\ text_queue' = r.queue
           /\ got' = Returned(r.text)
           /\ delivered' = IF text_queue # <<>> THEN Append(delivered, r.text)
                            ELSE delivered
    /\ UNCHANGED <<listening, asr_pc, cl_pc, late_texts, recognized, failed>>
    /\ UNCHANGED <<mainVars, ttsVars>>

\* asr.py:104-105  stop_listening: clear the flag
StopListening ==
    /\ cl_pc = "running"
    /\ IF listening
       THEN listening' = FALSE /\ cl_pc' = "joining"
       ELSE listening' = listening /\ cl_pc' = "stopped"
    /\ UNCHANGED <<text_queue, asr_pc, late_texts>>
    /\ UNCHANGED <<mainVars, ttsVars>>
    /\ UNCHANGED asrLog

\* asr.py:106-108  listen_thread.join(timeout=2) returns: the thread has ended,
\* or the 2 seconds are over while it is still in its listen cycle
JoinListener ==
    /\ cl_pc = "joining"
    /\ \/ asr_pc = "done"
       \/ asr_pc # "done"
    /\ cl_pc' = "stopped"
    /\ UNCHANGED <<listening, text_queue, asr_pc, late_texts>>
    /\ UNCHANGED <<mainVars, ttsVars>>
    /\ UNCHANGED asrLog

InitASR == MainOff /\ TTSIdle /\ ASRConstructed

\* the speech call that runs beside the listener
SpeechCall == CHOOSE c \in Calls : TRUE

NextASR ==
    \/ ASRLoop \/ ASRCheckTTS \/ ASRPause \/ ASRListen \/ ASRRecognize
    \/ ASRErrorSleep
    \/ StartListening \/ ClientPoll \/ ClientGetText \/ StopListening
    \/ JoinListener
    \/ TTSStep(SpeechCall) \/ PlaybackEnds

SpecASR == InitASR /\ [][NextASR]_vars

(***************************************************************************)
(* Properties of the main loop and the recognition worker (Spec).          *)
(***************************************************************************)
HasUnknown(faces) == \E i \in 1..Len(faces) : faces[i] = "Unknown"

\* the main thread takes the step at position p
MainStepAt(p) == pc = p /\ pc' # p

\* C1: in guard mode with no conversation in progress, the loop iteration whose
\* recognition result holds an Unknown face more than 10 seconds after the last
\* alert starts the conversation: conversation_mode becomes True, the deadline is
\* now+60, start_conversation makes the manager active and its opening message
\* is handed to text_to_speech_async; and a conversation starts in no other way.
C1_UnknownFaceStartsConversation ==
    [][ /\ ( /\ MainStepAt("guard") /\ guard_mode /\ ~conversation_mode
             /\ HasUnknown(recognized_faces)
             /\ now - last_unknown_alert_time > AlertInterval )
           => ( /\ conversation_mode'
                /\ conversation_timeout' = now + ConversationSeconds
                /\ conversation_active'
                /\ tts_message' = OpeningMessage
                /\ last_unknown_alert_time' = now )
        /\ (~conversation_mode /\ conversation_mode')
           => ( /\ MainStepAt("guard") /\ guard_mode
                /\ HasUnknown(recognized_faces)
                /\ now - last_unknown_alert_time > AlertInterval )
      ]_vars

\* C1 witness: a conversation just started by the unknown-face check
C1_Witness ==
    /\ pc = "speech" /\ guard_mode /\ conversation_mode /\ conversation_active
    /\ HasUnknown(recognized_faces)
    /\ tts_message = OpeningMessage
    /\ conversation_timeout = now + ConversationSeconds
    /\ last_unknown_alert_time = now

\* C2: once the main loop has exited, the main thread and the worker are never
\* both blocked for good: main on frame_queue.put(None) or on join(), the worker
\* on result_queue.put with nobody left to take the result.
C2_ShutdownNeverDeadlocks ==
    ~( /\ \/ pc = "put_sentinel" /\ Len(frame_queue) >= QueueSize
          \/ pc = "join"
       /\ wpc = "put"
       /\ Len(result_queue) >= QueueSize )

\* C3 as stated: frame_queue, result_queue and the ASR text_queue each hold at
\* most one item.
C3_AllQueuesSingleSlot ==
    /\ Len(frame_queue) <= 1
    /\ Len(result_queue) <= 1
    /\ Len(text_queue) <= 1

\* C3 amended: frame_queue and result_queue each hold at most one item (the ASR
\* text_queue is not bounded by the program).
C3_VideoQueuesSingleSlot ==
    /\ Len(frame_queue) <= 1
    /\ Len(result_queue) <= 1

\* C3 witness: both video queues full while text_queue holds two texts
C3_Witness ==
    /\ Len(frame_queue) = 1
    /\ Len(result_queue) = 1
    /\ Len(text_queue) = 2

\* C4: inside the main loop no queue operation can block the main thread: when
\* it is about to put a frame the put can proceed, when it is about to get a
\* result the get can proceed, and taking the ASR text can always proceed.
C4_MainLoopNeverBlocks ==
    /\ pc = "put_frame" => (Len(frame_queue) < QueueSize /\ ENABLED PutFrame)
    /\ pc = "get_result" => (result_queue # <<>> /\ ENABLED GetResult)
    /\ pc = "speech" => ENABLED Speech

\* C4 witness: the main thread about to take a result while the worker already
\* holds the next frame
C4_Witness ==
    /\ pc = "get_result"
    /\ wpc = "put"
    /\ frame_count = 2 * process_every_n_frames

\* C5: the deadline is 60 seconds after the conversation start and 60 seconds
\* after each utterance processed in conversation mode; when the timeout check
\* finds the time past the deadline in conversation mode, conversation_mode
\* becomes False, the manager is ended and the final warning is handed to TTS;
\* up to the deadline the check leaves the conversation alone.
C5_ConversationTimeout ==
    [][ /\ (~conversation_mode /\ conversation_mode')
           => conversation_timeout' = now + ConversationSeconds
        /\ (MainStepAt("speech") /\ conversation_mode /\ text_queue # <<>>)
           => conversation_timeout' = now + ConversationSeconds
        /\ (MainStepAt("timeout") /\ conversation_mode /\ now > conversation_timeout)
           => ( /\ ~conversation_mode'
                /\ ~conversation_active'
                /\ tts_message' = FinalWarning
                /\ pc' = "read" )
        /\ (MainStepAt("timeout") /\ conversation_mode /\ ~(now > conversation_timeout))
           => (conversation_mode' /\ conversation_active' /\ UNCHANGED tts_message)
      ]_vars

\* C5 witness: a conversation whose deadline had been reset by an utterance has
\* just timed out
C5_Witness ==
    /\ pc = "read"
    /\ ~conversation_mode /\ ~conversation_active
    /\ tts_message = FinalWarning
    /\ conversation_timeout > StartTime + ConversationSeconds
    /\ now > conversation_timeout

\* C6: a recognized text that contains both "stop" and "guard" (after lower())
\* and is taken while not in conversation mode sets guard_mode and
\* conversation_mode to False.
C6_StopGuardCommand ==
    [][ ( /\ MainStepAt("speech") /\ text_queue # <<>> /\ ~conversation_mode
          /\ Contains(Lower(Head(text_queue)), KwStop)
          /\ Contains(Lower(Head(text_queue)), KwGuard) )
        => (~guard_mode' /\ ~conversation_mode')
      ]_vars

\* C7: in conversation mode a recognized text is the intruder's response: it is
\* taken from the queue, the manager's reply is handed to TTS and the deadline is
\* reset to now+60; it changes neither guard_mode nor conversation_mode and the
\* loop goes on to the timeout check, whatever the text says.
C7_ConversationTextIsIntruderResponse ==
    [][ (MainStepAt("speech") /\ conversation_mode /\ text_queue # <<>>)
        => ( /\ text_queue' = Tail(text_queue)
             /\ tts_message' = ReplyMessage
             /\ conversation_timeout' = now + ConversationSeconds
             /\ guard_mode' = guard_mode
             /\ conversation_mode' /\ conversation_active'
             /\ pc' = "timeout" )
      ]_vars

\* C7 witness: a reply has just been handed to TTS, later than the start of the
\* run, with guard mode and the conversation still on
C7_Witness ==
    /\ pc = "timeout"
    /\ guard_mode /\ conversation_mode
    /\ tts_message = ReplyMessage
    /\ conversation_timeout = now + ConversationSeconds
    /\ now > StartTime

(***************************************************************************)
(* Properties of text_to_speech (SpecTTS).                                 *)
(***************************************************************************)
\* no call other than c is between its entry and its return, no cleanup thread
\* other than c's is running
NoOtherCall(c) ==
    \A d \in Calls \ {c} :
        tts_pc[d] \in {"idle", "returned"} /\ cleanup_pc[d] \in {"none", "done"}

\* C8: after a blocking text_to_speech call has returned, True or False, with no
\* other call in progress, the is_speaking flag is False.
C8_FlagClearAfterBlockingCall ==
    \A c \in Calls :
        (tts_pc[c] = "returned" /\ tts_blocking[c] /\ NoOtherCall(c))
            => ~is_speaking

C10_StopListeningEndsThread ==
    cl_pc = "stopped" => (asr_pc = "done" /\ late_texts = 0)

\* C10 amended: after stop_listening has returned, listening is False and the
\* listener thread, if still alive, adds at most one more text to text_queue;
\* once it has added one it is at its loop test or has ended.
C10_AtMostOneLateText ==
    /\ cl_pc = "stopped" => ~listening
    /\ late_texts <= 1
    /\ late_texts = 1 => asr_pc \in {"loop", "done"}

\* C10 witness: the thread has ended after adding a text once stop_listening
\* had returned
C10_Witness ==
    /\ cl_pc = "stopped"
    /\ asr_pc = "done"
    /\ late_texts = 1

\* C11: the listener never captures microphone audio (inside recognizer.listen)
\* while TTS is speaking (is_speaking True or audio playing).
C11_NoListenWhileSpeaking ==
    ~(asr_pc = "listen" /\ (is_speaking \/ music_busy))

\* C12: unknown-person alerts are never issued less than 10 seconds apart (an
\* alert is printed only more than 10 seconds after the time of the last one,
\* which it then becomes), and one run of the unknown-face check prints at
\* most one alert, however many Unknown faces the result holds.
C12_AlertRateLimit ==
    [][ MainStepAt("guard")
        => ( /\ alerts' <= 1
             /\ alerts' >= 1
                => ( /\ now - last_unknown_alert_time > AlertInterval
                     /\ last_unknown_alert_time' = now )
             /\ alerts' = 0 => UNCHANGED last_unknown_alert_time )
      ]_vars

\* the Unknown faces of a recognition result
UnknownCount(faces) == Cardinality({i \in 1..Len(faces) : faces[i] = "Unknown"})

\* C12 witness: one alert has just been printed for a result with two Unknown
\* faces, later than an earlier alert
C12_Witness ==
    /\ pc = "speech"
    /\ alerts = 1
    /\ UnknownCount(recognized_faces) = 2
    /\ last_unknown_alert_time = now
    /\ now > StartTime

\* the texts recognized so far are those get_text() has returned followed by
\* those still queued: returned in the order recognized, each once, none lost
DeliveredInOrder == recognized = delivered \o text_queue

\* C13: get_text never blocks; on an empty queue it returns None and changes
\* nothing, otherwise it removes and returns the oldest text, so the texts are
\* delivered in the order recognized and each at most once; has_text is True
\* exactly when the queue is non-empty.
C13_GetTextNonBlockingFifo ==
    [][ /\ DeliveredInOrder /\ DeliveredInOrder'
        /\ cl_pc = "running" => ENABLED ClientGetText
        /\ HasText(text_queue) <=> Len(text_queue) > 0
        /\ delivered' # delivered
           => ( /\ text_queue # <<>>
                /\ got' = <<Head(text_queue)>>
                /\ text_queue' = Tail(text_queue)
                /\ delivered' = Append(delivered, Head(text_queue)) )
        /\ (got' # got /\ text_queue = <<>>)
           => (got' = <<>> /\ UNCHANGED <<text_queue, delivered>>)
      ]_vars

\* C13 witness: two different texts were returned in the order recognized, and
\* a further get_text() on the empty queue returned None
C13_Witness ==
    /\ Len(delivered) = 2
    /\ delivered[1] # delivered[2]
    /\ recognized = delivered
    /\ text_queue = <<>>
    /\ got = Returned(None)

\* the worker thread takes the step at position p
WorkerStepAt(p) == wpc = p /\ wpc' # p

\* C14: a frame enters frame_queue only from the main loop when frame_count is
\* a multiple of 3 (the only other item is the None sentinel of the shutdown);
\* the worker, for a frame it dequeues, puts exactly the recognition result of
\* that frame before it dequeues again, and for the sentinel stops and puts
\* nothing; result_queue receives nothing else; recognized_faces is [] at the
\* start, becomes the result taken by result_queue.get(), and changes in no
\* other step, in particular not when the poll finds result_queue empty.
C14_FrameAndResultFlow ==
    [][ /\ Len(frame_queue') > Len(frame_queue)
           => \/ /\ MainStepAt("put_frame")
                 /\ frame_count % process_every_n_frames = 0
                 /\ frame \in Scenes
                 /\ frame_queue' = Append(frame_queue, frame)
              \/ /\ MainStepAt("put_sentinel")
                 /\ frame_queue' = Append(frame_queue, None)
        /\ WorkerStepAt("get")
           => /\ frame_queue # <<>>
              /\ frame_queue' = Tail(frame_queue)
              /\ result_queue' = result_queue
              /\ IF Head(frame_queue) = None
                 THEN wpc' = "done"
                 ELSE wpc' = "put" /\ wframe' = Head(frame_queue)
        /\ WorkerStepAt("put")
           => /\ wpc' = "get"
              /\ result_queue' = Append(result_queue, Recognize(wframe))
              /\ frame_queue' = frame_queue
        /\ Len(result_queue') > Len(result_queue) => WorkerStepAt("put")
        /\ wpc = "done" => wpc' = "done"
        /\ frame_count = 0 => recognized_faces = <<>>
        /\ MainStepAt("get_result")
           => /\ result_queue # <<>>
              /\ recognized_faces' = Head(result_queue)
              /\ result_queue' = Tail(result_queue)
        /\ recognized_faces' # recognized_faces => MainStepAt("get_result")
        /\ (MainStepAt("poll") /\ result_queue = <<>>)
           => (pc' = "guard" /\ recognized_faces' = recognized_faces)
      ]_vars

\* C14 witness: six frames were captured, the result of an offered frame with
\* strangers was taken, and the worker stopped on the sentinel with no result
\* left behind
C14_Witness ==
    /\ frame_count = MaxFrames
    /\ HasUnknown(recognized_faces)
    /\ wpc = "done"
    /\ result_queue = <<>>
    /\ frame_queue = <<>>

\* the listener thread takes the step at position p
ListenerStepAt(p) == asr_pc = p /\ asr_pc' # p

\* C15: a listen or a recognition that raises (WaitTimeoutError,
\* UnknownValueError, RequestError, any other Exception) puts no text on
\* text_queue and leaves the worker in its loop, at the loop test or at the
\* one-second sleep that leads back to it; from the loop test the worker goes
\* on to the next cycle while listening is True, and it ends nowhere else than
\* at the loop test with listening False.
C15_WorkerSurvivesFailures ==
    [][ /\ ((ListenerStepAt("listen") \/ ListenerStepAt("recognize")) /\ failed')
           => /\ text_queue' = text_queue
              /\ recognized' = recognized
              /\ asr_pc' \in {"loop", "error_sleep"}
        /\ ListenerStepAt("error_sleep")
           => (asr_pc' = "loop" /\ text_queue' = text_queue)
        /\ (ListenerStepAt("loop") /\ listening) => asr_pc' = "check_tts"
        /\ (asr_pc # "done" /\ asr_pc' = "done")
           => (asr_pc = "loop" /\ ~listening)
      ]_vars

\* C15 witness: a listen cycle raised, nothing was enqueued, and the worker is
\* listening again
C15_Witness ==
    /\ failed
    /\ asr_pc = "listen"
    /\ listening
    /\ recognized = <<>>
    /\ text_queue = <<>>

====
